---- MODULE Spec2Model ----
(***************************************************************************)
(* Task supervision subsystem of charts/workspace/server.py:               *)
(* ClaudeTaskManager (token file, task directories, tmux sessions) and the *)
(* BrowserHandler endpoints in front of it.                                *)
(*                                                                         *)
(* The server is a socketserver.TCPServer (server.py:1400): one request is *)
(* handled at a time, so every HTTP handler is one atomic action.  What    *)
(* runs beside the handlers is the daemon thread started by create_task    *)
(* (send_prompt), the tmux sessions, which may exit at any moment, and     *)
(* the clock.                                                              *)
(*                                                                         *)
(* A handler is written as an operator of the request: it yields the       *)
(* response (code, body) and the store the handler leaves (st).  The       *)
(* action of an endpoint picks a request and installs that store.          *)
(***************************************************************************)
EXTENDS Integers, Sequences, FiniteSets, TLC

-----------------------------------------------------------------------------
(* Bounds of the model *)

\* time.time() runs over 0..MaxTime (whole seconds)
MaxTime == 1
\* secrets.token_hex(4) takes the values 1..MaxSuffix
MaxSuffix == 2
\* task directories that may exist at once
MaxTasks == 2
\* tokens secrets.token_urlsafe(36) hands out in one run
MaxTokens == 2
\* follow-ups recorded per task
MaxFollowups == 2
\* lines a captured tmux pane may hold
MaxLines == 1
\* requests handled in one run
MaxReqs == 3
\* task.json files that may get damaged in one run
MaxDamaged == 1

-----------------------------------------------------------------------------
(* Values *)

\* os.path.isfile / os.path.exists of the token file, and its contents
NoTokenFile == [exists |-> FALSE, content |-> ""]

\* The n-th value of secrets.token_urlsafe(36).  288 random bits: two calls
\* never return the same string, so the values are modelled as fresh.
token_urlsafe(n) == "tok" \o ToString(n)

\* A string holding a character outside ASCII, as a latin-1 decoded header may
NonAscii == "nonascii"

\* Mutant of Strip: the string is taken as sent
Strip_kept(s) == s

\* str.strip() on the strings of the model: " " is the whitespace-only string
Strip(s) == IF s = " " THEN "" ELSE s

\* dict.get(key, default)
DictGet(d, k, default) == IF k \in DOMAIN d THEN d[k] ELSE default

\* d[key] = value
DictPut(d, k, v) == (k :> v) @@ d

\* f"{int(time.time())}-{secrets.token_hex(4)}": the directory name of a task
TaskIds == (0..MaxTime) \X (1..MaxSuffix)

\* an id no create_task generates (token_hex never yields suffix 0)
UnknownId == <<0, 0>>

\* f'claude-{task_id}'
SessionName(task_id) == <<"claude", task_id>>

\* sorted(..., reverse=True) compares directory names: the seconds prefix
\* first (ten digits, so string order is numeric order), then the hex suffix
NameLess(a, b) == a[1] < b[1] \/ (a[1] = b[1] /\ a[2] < b[2])

RECURSIVE SortedReverse(_)
SortedReverse(S) ==
  IF S = {} THEN <<>>
  ELSE LET m == CHOOSE x \in S : \A y \in S : y = x \/ NameLess(y, x)
       IN  <<m>> \o SortedReverse(S \ {m})

-----------------------------------------------------------------------------
(* Requests *)

\* The headers a request carries: the three proxy identity headers and
\* Authorization ("" when absent)
Hdr(u, e, r, scheme, value) ==
  [xUser |-> u, xEmail |-> e, remoteUser |-> r, scheme |-> scheme, value |-> value]

BearerValues == {token_urlsafe(i) : i \in 1..MaxTokens} \cup {"junk", " ", NonAscii}

Headers ==
  {Hdr("", "", "", "", ""),
   Hdr("alice", "", "", "", ""),
   Hdr("", "alice@x", "", "", ""),
   Hdr("", "", "alice", "", ""),
   Hdr("", "", "", "Basic", "junk")}
  \cup {Hdr("", "", "", "Bearer", v) : v \in BearerValues}

\* read_json_body() and the fields the handlers take from it
Body(valid, hasPrompt, prompt, hasWorkdir, workdir) ==
  [valid |-> valid, hasPrompt |-> hasPrompt, prompt |-> prompt,
   hasWorkdir |-> hasWorkdir, workdir |-> workdir]

Bodies ==
  {Body(FALSE, FALSE, "", FALSE, ""),
   Body(TRUE, FALSE, "", FALSE, ""),
   Body(TRUE, TRUE, "", FALSE, ""),
   Body(TRUE, TRUE, " ", FALSE, ""),
   Body(TRUE, TRUE, "p1", FALSE, ""),
   Body(TRUE, TRUE, "p2", TRUE, "/w")}

\* the requests the model sends: every argument with the headers of
\* TaskHeaders, and every header with the plain arguments
NoCreds == Hdr("", "", "", "", "")

ProxyUser == Hdr("alice", "", "", "", "")

TaskHeaders == {NoCreds, ProxyUser}

PlainBody == Body(TRUE, TRUE, "p1", FALSE, "")

\* ?tail=N as handle_claude_get_output parses it: None unless all digits
Tails == [given : {FALSE}, n : {0}] \cup [given : {TRUE}, n : 0..(MaxLines + 1)]

NoTail == [given |-> FALSE, n |-> 0]

-----------------------------------------------------------------------------
VARIABLES
  now,          \* time.time()
  tasks,        \* TASKS_DIR: directory name -> contents of its task.json
  files,        \* directory name -> the other files of the directory
  tmux,         \* session name -> [alive, input]: input is what was pasted
  pending,      \* tasks whose send_prompt thread has not run yet
  tokenFile,    \* TOKEN_FILE
  tokenCtr,     \* values token_urlsafe has handed out
  issued,       \* tokens returned to a caller by get_or_create / regenerate
  lastWritten,  \* token returned by the latest call that wrote TOKEN_FILE
  justCreated,  \* the task the latest request created (UnknownId: none)
  reqNo,        \* requests handled so far
  damaged       \* directory name -> what json.load raises on its task.json

vars == <<now, tasks, files, tmux, pending, tokenFile, tokenCtr, issued, lastWritten,
          justCreated, reqNo, damaged>>

\* what the handlers read and write: the files under TASKS_DIR, the tmux
\* server, the threads started, the random generator
Store ==
  [tasks |-> tasks, files |-> files, tmux |-> tmux, pending |-> pending,
   tokenFile |-> tokenFile, tokenCtr |-> tokenCtr]

\* tmux has-session -t name
Alive(name) == name \in DOMAIN tmux /\ tmux[name].alive

AliveSessions == {s \in DOMAIN tmux : tmux[s].alive}

\* os.path.isfile(meta_path)
IsTask(task_id) == task_id \in DOMAIN tasks

\* json.load(f) on the task.json of a directory: "ok", or the exception it
\* raises: JSONDecodeError on an empty or cut-off file, UnicodeDecodeError on
\* bytes that are not UTF-8
json_load(task_id) == IF task_id \in DOMAIN damaged THEN damaged[task_id] ELSE "ok"

\* what a handler did: the response sent and the store it leaves
Result(code, body, st) == [code |-> code, body |-> body, st |-> st]

\* a response sent without writing anything
Same(code, body) == Result(code, body, Store)

\* the connection is closed without a response (exception out of do_GET)
NoResponse == 0

Init ==
  /\ now = 0
  /\ tasks = <<>>
  /\ files = <<>>
  /\ tmux = <<>>
  /\ pending = {}
  /\ tokenFile = NoTokenFile
  /\ tokenCtr = 0
  /\ issued = {}
  /\ lastWritten = ""
  /\ justCreated = UnknownId
  /\ reqNo = 0
  /\ damaged = <<>>

\* the model's bounds on what a request may leave behind
WithinBounds(st) ==
  /\ Cardinality(DOMAIN st.tasks) <= MaxTasks
  /\ st.tokenCtr <= MaxTokens
  /\ \A t \in DOMAIN st.tasks : Len(DictGet(st.tasks[t], "followups", <<>>)) <= MaxFollowups

\* one request handled: the store the handler leaves is installed
Serve(r, created) ==
  /\ reqNo < MaxReqs
  /\ WithinBounds(r.st)
  /\ reqNo' = reqNo + 1
  /\ tasks' = r.st.tasks
  /\ files' = r.st.files
  /\ tmux' = r.st.tmux
  /\ pending' = r.st.pending
  /\ tokenFile' = r.st.tokenFile
  /\ tokenCtr' = r.st.tokenCtr
  /\ justCreated' = created
  /\ UNCHANGED <<now, damaged>>

-----------------------------------------------------------------------------
(* Token authority *)

\* Mutant of get_or_create_token: the file is not read, a token is always made
get_or_create_token_unread ==
  LET token == token_urlsafe(tokenCtr + 1)
  IN  [token |-> token, file |-> [exists |-> TRUE, content |-> token],
       ctr |-> tokenCtr + 1]

\* Mutant of get_or_create_token: a token made is returned but not written
get_or_create_token_unsaved ==
  IF tokenFile.exists /\ Strip(tokenFile.content) # ""
  THEN [token |-> Strip(tokenFile.content), file |-> tokenFile, ctr |-> tokenCtr]
  ELSE [token |-> token_urlsafe(tokenCtr + 1), file |-> tokenFile, ctr |-> tokenCtr + 1]

\* get_or_create_token(): the token returned, the file and the generator after
get_or_create_token ==
  IF tokenFile.exists /\ Strip(tokenFile.content) # ""
  THEN [token |-> Strip(tokenFile.content), file |-> tokenFile, ctr |-> tokenCtr]
  ELSE LET token == token_urlsafe(tokenCtr + 1)
       IN  [token |-> token, file |-> [exists |-> TRUE, content |-> token],
            ctr |-> tokenCtr + 1]

\* regenerate_token()
regenerate_token ==
  LET token == token_urlsafe(tokenCtr + 1)
  IN  [token |-> token, file |-> [exists |-> TRUE, content |-> token],
       ctr |-> tokenCtr + 1]

\* Mutant of verify_token: every token ever handed out stays valid
verify_token_cached(token) == IF token \in issued THEN "True" ELSE "False"

\* verify_token(token): "True", "False", or the TypeError that
\* secrets.compare_digest raises on a str with non-ASCII characters
verify_token(token) ==
  IF ~tokenFile.exists THEN "False"
  ELSE LET stored == Strip(tokenFile.content)
       IN  IF token = NonAscii THEN "TypeError"
           ELSE IF token = stored THEN "True" ELSE "False"

\* BrowserHandler.check_claude_auth
check_claude_auth(hdr) ==
  IF hdr.xUser # "" \/ hdr.xEmail # "" THEN "True"
  ELSE IF hdr.remoteUser # "" THEN "True"
  ELSE IF hdr.scheme = "Bearer" THEN verify_token(Strip(hdr.value))
  ELSE "False"

\* Mutant of check_oauth_only: a valid bearer token is let through as well
check_oauth_or_bearer(hdr) == check_claude_auth(hdr) = "True"

\* BrowserHandler.check_oauth_only
check_oauth_only(hdr) ==
  IF hdr.xUser # "" \/ hdr.xEmail # "" THEN TRUE
  ELSE IF hdr.remoteUser # "" THEN TRUE
  ELSE FALSE

\* A request check_claude_auth does not let through: 401 when it returns
\* False; when it raises, the exception leaves the handler, and do_GET lets
\* it go (no response) while do_POST and do_DELETE answer 500.
Refused(auth, onRaise) ==
  IF auth = "False" THEN Same(401, "Unauthorized") ELSE Same(onRaise, "TypeError")

\* handle_claude_get_token
handle_claude_get_token(hdr) ==
  IF ~check_oauth_only(hdr) THEN Same(401, "OAuth2 required")
  ELSE LET r == get_or_create_token
       IN  Result(200, r.token, [Store EXCEPT !.tokenFile = r.file, !.tokenCtr = r.ctr])

\* handle_claude_regenerate_token
handle_claude_regenerate_token(hdr) ==
  IF ~check_oauth_only(hdr) THEN Same(401, "OAuth2 required")
  ELSE LET r == regenerate_token
       IN  Result(200, r.token, [Store EXCEPT !.tokenFile = r.file, !.tokenCtr = r.ctr])

\* a token endpoint answered: what was handed out is remembered
TokenServed(r) ==
  /\ Serve(r, UnknownId)
  /\ issued' = IF r.code = 200 THEN issued \cup {r.body} ELSE issued
  /\ lastWritten' = IF r.st.tokenCtr # tokenCtr THEN r.body ELSE lastWritten

GetToken == \E hdr \in Headers : TokenServed(handle_claude_get_token(hdr))

RegenerateToken == \E hdr \in Headers : TokenServed(handle_claude_regenerate_token(hdr))

-----------------------------------------------------------------------------
(* Environment: the clock, the sessions, the prompt thread *)

\* a second passes
Tick ==
  /\ now < MaxTime
  /\ now' = now + 1
  /\ UNCHANGED <<tasks, files, tmux, pending, tokenFile, tokenCtr, issued,
                 lastWritten, justCreated, reqNo, damaged>>

\* the interactive program of a session exits on its own
SessionExit ==
  \E s \in AliveSessions :
    /\ tmux' = [tmux EXCEPT ![s].alive = FALSE]
    /\ UNCHANGED <<now, tasks, files, pending, tokenFile, tokenCtr, issued,
                   lastWritten, justCreated, reqNo, damaged>>

\* tmux load-buffer + paste-buffer + send-keys Enter into session `name`
Paste(name, buf, text) ==
  [tmux EXCEPT ![name].input = Append(@, [buf |-> buf, text |-> text])]

\* Mutant of send_prompt: the thread ends without pasting
send_prompt_gives_up(task_id) ==
  /\ pending' = pending \ {task_id}
  /\ UNCHANGED <<now, tasks, files, tmux, tokenFile, tokenCtr, issued, lastWritten,
                 justCreated, reqNo, damaged>>

\* Mutant of send_prompt: a failed paste is recorded in the task's metadata
send_prompt_marks_failure(task_id) ==
  LET name == SessionName(task_id) IN
  /\ tmux' = IF Alive(name)
             THEN Paste(name, "prompt", files[task_id]["prompt.txt"])
             ELSE tmux
  /\ tasks' = IF Alive(name) THEN tasks
              ELSE [tasks EXCEPT ![task_id] = DictPut(@, "status", "error")]
  /\ pending' = pending \ {task_id}
  /\ UNCHANGED <<now, files, tokenFile, tokenCtr, issued, lastWritten,
                 justCreated, reqNo, damaged>>

\* create_task.send_prompt, the daemon thread: after the settle delay (any
\* later moment) it pastes prompt.txt; paste-buffer fails on a dead session
\* and the failure is only printed
send_prompt(task_id) ==
  LET name == SessionName(task_id) IN
  /\ tmux' = IF Alive(name)
             THEN Paste(name, "prompt", files[task_id]["prompt.txt"])
             ELSE tmux
  /\ pending' = pending \ {task_id}
  /\ UNCHANGED <<now, tasks, files, tokenFile, tokenCtr, issued, lastWritten,
                 justCreated, reqNo, damaged>>

SendPrompt == \E t \in pending : send_prompt(t)

-----------------------------------------------------------------------------
(* Task supervisor *)

\* Mutant of reconcile_status: finished_at is not recorded
reconcile_status_unstamped(meta) ==
  IF DictGet(meta, "status", "") # "running" THEN meta
  ELSE IF "tmux_session" \notin DOMAIN meta THEN meta
  ELSE IF Alive(meta["tmux_session"]) THEN meta
  ELSE DictPut(meta, "status", "completed")

\* Mutant of reconcile_status: the result of has-session is not looked at
reconcile_status_eager(meta) ==
  IF DictGet(meta, "status", "") # "running" THEN meta
  ELSE IF "tmux_session" \notin DOMAIN meta THEN meta
  ELSE DictPut(DictPut(meta, "status", "completed"), "finished_at", now)

\* Mutant of reconcile_status: the status of the record is not looked at
reconcile_status_unguarded(meta) ==
  IF "tmux_session" \notin DOMAIN meta THEN meta
  ELSE IF Alive(meta["tmux_session"]) THEN meta
  ELSE DictPut(DictPut(meta, "status", "completed"), "finished_at", now)

\* ClaudeTaskManager._reconcile_status(meta, task_dir): the record after it;
\* list_tasks and get_task persist it when it differs
reconcile_status(meta) ==
  IF DictGet(meta, "status", "") # "running" THEN meta
  ELSE IF "tmux_session" \notin DOMAIN meta THEN meta
  ELSE IF Alive(meta["tmux_session"]) THEN meta
  ELSE DictPut(DictPut(meta, "status", "completed"), "finished_at", now)

\* Mutant of NewMeta: the session name is derived from the timestamp alone
NewMeta_by_second(task_id, session_id, prompt, workdir) ==
  [task_id |-> task_id, session_id |-> session_id, prompt |-> prompt,
   workdir |-> workdir, status |-> "running", created_at |-> now,
   tmux_session |-> SessionName(<<task_id[1], 0>>)]

\* the meta dict create_task builds
NewMeta(task_id, session_id, prompt, workdir) ==
  [task_id |-> task_id, session_id |-> session_id, prompt |-> prompt,
   workdir |-> workdir, status |-> "running", created_at |-> now,
   tmux_session |-> SessionName(task_id)]

\* str(uuid.uuid4()): a value no earlier call returned
uuid4 == "uuid" \o ToString(Cardinality(DOMAIN tasks) + 1)

\* Mutant of create_task: the return code of tmux new-session is not looked at
create_task_start_unchecked(prompt, workdir, suffix, startOk) ==
  LET task_id == <<now, suffix>>
      meta    == NewMeta(task_id, uuid4, prompt, workdir)
      written == (task_id :> [x \in {"prompt.txt"} |-> prompt]) @@ files
  IN
  IF IsTask(task_id)
  THEN Same(500, "Server error")
  ELSE Result(201, meta,
              [Store EXCEPT !.tasks = (task_id :> meta) @@ tasks, !.files = written,
                            !.tmux = IF startOk
                                     THEN (SessionName(task_id) :>
                                             [alive |-> TRUE, input |-> <<>>]) @@ tmux
                                     ELSE tmux,
                            !.pending = pending \cup {task_id}])

\* Mutant of create_task: an existing directory is accepted (exist_ok=True)
create_task_exist_ok(prompt, workdir, suffix, startOk) ==
  LET task_id == <<now, suffix>>
      meta    == NewMeta(task_id, uuid4, prompt, workdir)
      failed  == DictPut(DictPut(meta, "status", "error"), "error", "tmux failed")
      written == (task_id :> [x \in {"prompt.txt"} |-> prompt]) @@ files
  IN
  IF ~startOk \/ Alive(SessionName(task_id))
  THEN Result(201, failed,
              [Store EXCEPT !.tasks = (task_id :> failed) @@ tasks, !.files = written])
  ELSE Result(201, meta,
              [Store EXCEPT !.tasks = (task_id :> meta) @@ tasks, !.files = written,
                            !.tmux = (SessionName(task_id) :>
                                        [alive |-> TRUE, input |-> <<>>]) @@ tmux,
                            !.pending = pending \cup {task_id}])

\* ClaudeTaskManager.create_task(prompt, workdir), with the value token_hex
\* returns and whether tmux new-session succeeds
create_task(prompt, workdir, suffix, startOk) ==
  LET task_id == <<now, suffix>>
      meta    == NewMeta(task_id, uuid4, prompt, workdir)
      failed  == DictPut(DictPut(meta, "status", "error"), "error", "tmux failed")
      written == (task_id :> [x \in {"prompt.txt"} |-> prompt]) @@ files
  IN
  IF IsTask(task_id)
  THEN \* os.makedirs raises FileExistsError; do_POST answers 500
       Same(500, "Server error")
  ELSE IF ~startOk
  THEN Result(201, failed,
              [Store EXCEPT !.tasks = (task_id :> failed) @@ tasks, !.files = written])
  ELSE Result(201, meta,
              [Store EXCEPT !.tasks = (task_id :> meta) @@ tasks, !.files = written,
                            !.tmux = (SessionName(task_id) :>
                                        [alive |-> TRUE, input |-> <<>>]) @@ tmux,
                            !.pending = pending \cup {task_id}])

\* BrowserHandler.handle_claude_create_task
handle_claude_create_task(hdr, body, suffix, startOk) ==
  LET auth   == check_claude_auth(hdr)
      prompt == Strip(IF body.hasPrompt THEN body.prompt ELSE "")
  IN
  IF auth # "True" THEN Refused(auth, 500)
  ELSE IF ~body.valid THEN Same(400, "Invalid JSON body")
  ELSE IF prompt = "" THEN Same(400, "prompt is required")
  ELSE create_task(prompt, IF body.hasWorkdir THEN body.workdir ELSE "/home/dev",
                   suffix, startOk)

CreateInputs ==
  {i \in [hdr : Headers, body : Bodies, suffix : 1..MaxSuffix, startOk : BOOLEAN] :
     i.hdr \in TaskHeaders \/ (i.body = PlainBody /\ i.suffix = 1 /\ i.startOk)}

CreateTask ==
  \E i \in CreateInputs :
    LET r == handle_claude_create_task(i.hdr, i.body, i.suffix, i.startOk)
    IN  /\ Serve(r, IF r.code = 201 THEN r.body["task_id"] ELSE UnknownId)
        /\ UNCHANGED <<issued, lastWritten>>

\* the entry list_tasks appends for a record
Summary(entry, meta) ==
  [task_id |-> DictGet(meta, "task_id", entry), prompt |-> DictGet(meta, "prompt", ""),
   status |-> DictGet(meta, "status", "unknown"), created_at |-> meta["created_at"]]

\* Mutant of list_tasks: the summaries are built from the records as read
list_tasks_unreconciled ==
  LET entries == SortedReverse(DOMAIN tasks)
  IN  [i \in 1..Len(entries) |-> Summary(entries[i], tasks[entries[i]])]

\* ClaudeTaskManager.list_tasks(): every record reconciled, the summaries in
\* reverse order of the directory names
list_tasks ==
  LET Loads(entry) == json_load(entry) = "ok"
      entries == SelectSeq(SortedReverse(DOMAIN tasks), Loads)
  IN  [i \in 1..Len(entries) |-> Summary(entries[i], reconcile_status(tasks[entries[i]]))]

\* the entries list_tasks has read and reconciled when it returns or raises:
\* json.load succeeded on them, and no entry before them in the order raised
\* anything but the JSONDecodeError and OSError that the loop catches
list_reached(entry) ==
  /\ json_load(entry) = "ok"
  /\ \A e \in DOMAIN tasks : NameLess(entry, e) => json_load(e) # "UnicodeDecodeError"

\* an exception leaves list_tasks
list_raises == \E e \in DOMAIN tasks : json_load(e) = "UnicodeDecodeError"

\* BrowserHandler.handle_claude_list_tasks
handle_claude_list_tasks(hdr) ==
  LET auth == check_claude_auth(hdr) IN
  IF auth # "True" THEN Refused(auth, NoResponse)
  ELSE LET st == [Store EXCEPT !.tasks = [t \in DOMAIN tasks |->
                                             IF list_reached(t)
                                             THEN reconcile_status(tasks[t])
                                             ELSE tasks[t]]]
       IN  IF list_raises THEN Result(NoResponse, "UnicodeDecodeError", st)
           ELSE Result(200, list_tasks, st)

ListTasks ==
  \E hdr \in Headers :
    /\ Serve(handle_claude_list_tasks(hdr), UnknownId)
    /\ UNCHANGED <<issued, lastWritten>>

\* tmux capture-pane -p of a pane showing k lines: the '\n'-separated pieces
\* of its stdout (every line ends with '\n', so a last empty piece follows)
Capture(k) == [i \in 1..(k + 1) |-> IF i <= k THEN "line" \o ToString(i) ELSE ""]

\* ClaudeTaskManager.get_task(task_id), the pane showing k lines
get_task(task_id, k) ==
  LET meta == reconcile_status(tasks[task_id])
      recent_output == IF Alive(DictGet(meta, "tmux_session", SessionName(task_id))) /\ k > 0
                       THEN Capture(k) ELSE <<>>
  IN  DictPut(meta, "recent_output", recent_output)

\* BrowserHandler.handle_claude_get_task
handle_claude_get_task(hdr, task_id, k) ==
  LET auth == check_claude_auth(hdr) IN
  IF auth # "True" THEN Refused(auth, NoResponse)
  ELSE IF ~IsTask(task_id) THEN Same(404, "Task not found")
  ELSE IF json_load(task_id) # "ok" THEN Same(NoResponse, json_load(task_id))
  ELSE Result(200, get_task(task_id, k),
              [Store EXCEPT !.tasks[task_id] = reconcile_status(tasks[task_id])])

\* the ids requests name: every task directory and an id that has none
Targets == DOMAIN tasks \cup {UnknownId}

GetTask ==
  \E hdr \in Headers, t \in Targets, k \in 0..MaxLines :
    /\ hdr \in TaskHeaders \/ k = MaxLines
    /\ Serve(handle_claude_get_task(hdr, t, k), UnknownId)
    /\ UNCHANGED <<issued, lastWritten>>

\* lines[-tail:]
LastN(pieces, n) ==
  IF n >= Len(pieces) THEN pieces ELSE SubSeq(pieces, Len(pieces) - n + 1, Len(pieces))

\* ClaudeTaskManager.get_task_output(task_id, tail), the pane showing k lines.
\* No code of the repository writes output.log, so the fallback finds none.
get_task_output(task_id, tail, k) ==
  LET meta == tasks[task_id]
      name == DictGet(meta, "tmux_session", SessionName(task_id))
  IN  IF Alive(name) /\ k > 0
      THEN IF tail.given /\ tail.n # 0 THEN LastN(Capture(k), tail.n) ELSE Capture(k)
      ELSE <<"(no output available)">>

\* Mutant of handle_claude_get_output: the record is reconciled and written
handle_claude_get_output_reconciling(hdr, task_id, tail, k) ==
  LET auth == check_claude_auth(hdr) IN
  IF auth # "True" THEN Refused(auth, NoResponse)
  ELSE IF ~IsTask(task_id) THEN Same(404, "Task or output not found")
  ELSE IF json_load(task_id) # "ok" THEN Same(NoResponse, json_load(task_id))
  ELSE Result(200, get_task_output(task_id, tail, k),
              [Store EXCEPT !.tasks[task_id] = reconcile_status(tasks[task_id])])

\* BrowserHandler.handle_claude_get_output
handle_claude_get_output(hdr, task_id, tail, k) ==
  LET auth == check_claude_auth(hdr) IN
  IF auth # "True" THEN Refused(auth, NoResponse)
  ELSE IF ~IsTask(task_id) THEN Same(404, "Task or output not found")
  ELSE IF json_load(task_id) # "ok" THEN Same(NoResponse, json_load(task_id))
  ELSE Same(200, get_task_output(task_id, tail, k))

GetOutput ==
  \E hdr \in Headers, t \in Targets, tail \in Tails, k \in 0..MaxLines :
    /\ hdr \in TaskHeaders \/ (tail = NoTail /\ k = MaxLines)
    /\ Serve(handle_claude_get_output(hdr, t, tail, k), UnknownId)
    /\ UNCHANGED <<issued, lastWritten>>

\* Mutant of followup_has_session: the check is skipped
followup_unchecked(name) == TRUE

\* send_followup's check that the tmux session is still alive
followup_has_session(name) == Alive(name)

\* Mutant of send_followup: the record keeps only the newest follow-up
send_followup_newest_only(task_id, prompt, midExit) ==
  LET meta == tasks[task_id]
      name == DictGet(meta, "tmux_session", SessionName(task_id))
      followups == <<[prompt |-> prompt, sent_at |-> now]>>
      updated == DictPut(DictPut(meta, "status", "running"), "followups", followups)
      written == [files EXCEPT ![task_id] = DictPut(@, "followup.txt", prompt)]
  IN
  IF ~IsTask(task_id) THEN Same(404, "Task not found")
  ELSE IF json_load(task_id) # "ok" THEN Same(500, json_load(task_id))
  ELSE IF ~followup_has_session(name) THEN Same(404, "Session is no longer running")
  ELSE IF midExit \/ ~Alive(name)
  THEN Result(404, "Failed to send follow-up",
              [Store EXCEPT !.files = written,
                            !.tmux = IF name \in DOMAIN tmux
                                     THEN [tmux EXCEPT ![name].alive = FALSE] ELSE tmux])
  ELSE Result(200, updated,
              [Store EXCEPT !.files = written, !.tmux = Paste(name, "followup", prompt),
                            !.tasks[task_id] = updated])

\* Mutant of send_followup: the updated record is returned but not written
send_followup_unsaved(task_id, prompt, midExit) ==
  LET meta == tasks[task_id]
      name == DictGet(meta, "tmux_session", SessionName(task_id))
      followups == Append(DictGet(meta, "followups", <<>>),
                          [prompt |-> prompt, sent_at |-> now])
      updated == DictPut(DictPut(meta, "status", "running"), "followups", followups)
      written == [files EXCEPT ![task_id] = DictPut(@, "followup.txt", prompt)]
  IN
  IF ~IsTask(task_id) THEN Same(404, "Task not found")
  ELSE IF json_load(task_id) # "ok" THEN Same(500, json_load(task_id))
  ELSE IF ~followup_has_session(name) THEN Same(404, "Session is no longer running")
  ELSE IF midExit \/ ~Alive(name)
  THEN Result(404, "Failed to send follow-up",
              [Store EXCEPT !.files = written,
                            !.tmux = IF name \in DOMAIN tmux
                                     THEN [tmux EXCEPT ![name].alive = FALSE] ELSE tmux])
  ELSE Result(200, updated,
              [Store EXCEPT !.files = written, !.tmux = Paste(name, "followup", prompt)])

\* Mutant of send_followup: the buffer is loaded from prompt.txt
send_followup_wrong_file(task_id, prompt, midExit) ==
  LET meta == tasks[task_id]
      name == DictGet(meta, "tmux_session", SessionName(task_id))
      followups == Append(DictGet(meta, "followups", <<>>),
                          [prompt |-> prompt, sent_at |-> now])
      updated == DictPut(DictPut(meta, "status", "running"), "followups", followups)
      written == [files EXCEPT ![task_id] = DictPut(@, "followup.txt", prompt)]
  IN
  IF ~IsTask(task_id) THEN Same(404, "Task not found")
  ELSE IF json_load(task_id) # "ok" THEN Same(500, json_load(task_id))
  ELSE IF ~followup_has_session(name) THEN Same(404, "Session is no longer running")
  ELSE IF midExit \/ ~Alive(name)
  THEN Result(404, "Failed to send follow-up",
              [Store EXCEPT !.files = written,
                            !.tmux = IF name \in DOMAIN tmux
                                     THEN [tmux EXCEPT ![name].alive = FALSE] ELSE tmux])
  ELSE Result(200, updated,
              [Store EXCEPT !.files = written,
                            !.tmux = Paste(name, "followup", files[task_id]["prompt.txt"]),
                            !.tasks[task_id] = updated])

\* ClaudeTaskManager.send_followup(task_id, prompt); midExit: the session
\* exits between has-session and paste-buffer, which then fails
send_followup(task_id, prompt, midExit) ==
  LET meta == tasks[task_id]
      name == DictGet(meta, "tmux_session", SessionName(task_id))
      followups == Append(DictGet(meta, "followups", <<>>),
                          [prompt |-> prompt, sent_at |-> now])
      updated == DictPut(DictPut(meta, "status", "running"), "followups", followups)
      written == [files EXCEPT ![task_id] = DictPut(@, "followup.txt", prompt)]
  IN
  IF ~IsTask(task_id) THEN Same(404, "Task not found")
  ELSE IF json_load(task_id) # "ok" THEN Same(500, json_load(task_id))
  ELSE IF ~followup_has_session(name) THEN Same(404, "Session is no longer running")
  ELSE IF midExit \/ ~Alive(name)
  THEN Result(404, "Failed to send follow-up",
              [Store EXCEPT !.files = written,
                            !.tmux = IF name \in DOMAIN tmux
                                     THEN [tmux EXCEPT ![name].alive = FALSE] ELSE tmux])
  ELSE Result(200, updated,
              [Store EXCEPT !.files = written, !.tmux = Paste(name, "followup", prompt),
                            !.tasks[task_id] = updated])

\* BrowserHandler.handle_claude_followup
handle_claude_followup(hdr, task_id, body, midExit) ==
  LET auth   == check_claude_auth(hdr)
      prompt == Strip(IF body.hasPrompt THEN body.prompt ELSE "")
  IN
  IF auth # "True" THEN Refused(auth, 500)
  ELSE IF ~body.valid THEN Same(400, "Invalid JSON body")
  ELSE IF prompt = "" THEN Same(400, "prompt is required")
  ELSE send_followup(task_id, prompt, midExit)

FollowupInputs ==
  {i \in [hdr : Headers, body : Bodies, midExit : BOOLEAN] :
     i.hdr \in TaskHeaders \/ (i.body = PlainBody /\ ~i.midExit)}

SendFollowup ==
  \E i \in FollowupInputs, t \in Targets :
    /\ Serve(handle_claude_followup(i.hdr, t, i.body, i.midExit), UnknownId)
    /\ UNCHANGED <<issued, lastWritten>>

\* Mutant of kill_session: the session is left running
kill_session_skipped(name) == tmux

\* tmux kill-session -t name
kill_session(name) ==
  IF name \in DOMAIN tmux THEN [tmux EXCEPT ![name].alive = FALSE] ELSE tmux

\* Mutant of delete_task: a task whose session is gone is reported missing
delete_task_live_only(task_id) ==
  LET meta == tasks[task_id]
      name == DictGet(meta, "tmux_session", SessionName(task_id))
      killed == DictPut(DictPut(meta, "status", "killed"), "killed_at", now)
  IN  IF ~IsTask(task_id) \/ ~Alive(name) THEN Same(404, "Task not found")
      ELSE Result(200, killed,
                  [Store EXCEPT !.tmux = [tmux EXCEPT ![name].alive = FALSE],
                                !.tasks[task_id] = killed])

\* Mutant of delete_task: the record is marked killed, tmux is not called
delete_task_mark_only(task_id) ==
  LET meta == tasks[task_id]
      killed == DictPut(DictPut(meta, "status", "killed"), "killed_at", now)
  IN  IF ~IsTask(task_id) THEN Same(404, "Task not found")
      ELSE IF json_load(task_id) # "ok" THEN Same(500, json_load(task_id))
      ELSE Result(200, killed, [Store EXCEPT !.tasks[task_id] = killed])

\* ClaudeTaskManager.delete_task(task_id)
delete_task(task_id) ==
  LET meta == tasks[task_id]
      name == DictGet(meta, "tmux_session", SessionName(task_id))
      killed == DictPut(DictPut(meta, "status", "killed"), "killed_at", now)
  IN  IF ~IsTask(task_id) THEN Same(404, "Task not found")
      ELSE IF json_load(task_id) # "ok" THEN Same(500, json_load(task_id))
      ELSE Result(200, killed,
                  [Store EXCEPT !.tmux = kill_session(name), !.tasks[task_id] = killed])

\* BrowserHandler.handle_claude_delete_task
handle_claude_delete_task(hdr, task_id) ==
  LET auth == check_claude_auth(hdr) IN
  IF auth # "True" THEN Refused(auth, 500) ELSE delete_task(task_id)

DeleteTask ==
  \E hdr \in Headers, t \in Targets :
    /\ Serve(handle_claude_delete_task(hdr, t), UnknownId)
    /\ UNCHANGED <<issued, lastWritten>>

-----------------------------------------------------------------------------
Next ==
  \/ CreateTask
  \/ ListTasks
  \/ GetTask
  \/ GetOutput
  \/ SendFollowup
  \/ DeleteTask
  \/ GetToken
  \/ RegenerateToken
  \/ Tick
  \/ SessionExit
  \/ SendPrompt

Spec == Init /\ [][Next]_vars

\* the server with its threads scheduled: a started send_prompt thread wakes
\* after its time.sleep(3) and runs
SpecLive == Init /\ [][Next]_vars /\ WF_vars(SendPrompt)

\* regenerate_token() on a full disk: open(TOKEN_FILE, 'w') has emptied the
\* file when f.write raises OSError; the token made is lost, the file stays
\* empty, and do_POST answers 500
regenerate_token_write_fails ==
  Result(500, "OSError",
         [Store EXCEPT !.tokenFile = [exists |-> TRUE, content |-> ""],
                       !.tokenCtr = tokenCtr + 1])

RegenerateTokenWriteFails ==
  \E hdr \in Headers :
    /\ check_oauth_only(hdr)
    /\ Serve(regenerate_token_write_fails, UnknownId)
    /\ UNCHANGED <<issued, lastWritten>>

NextWriteFault == Next \/ RegenerateTokenWriteFails

\* the server on a disk on which a write of the token file may fail
SpecWriteFault == Init /\ [][NextWriteFault]_vars

\* the task.json of a directory gets damaged (a write cut short by a crash or
\* a full disk, a bad block): from then on json.load raises on it
CorruptMetadata ==
  \E t \in DOMAIN tasks \ DOMAIN damaged, e \in {"JSONDecodeError", "UnicodeDecodeError"} :
    /\ Cardinality(DOMAIN damaged) < MaxDamaged
    /\ damaged' = (t :> e) @@ damaged
    /\ UNCHANGED <<now, tasks, files, tmux, pending, tokenFile, tokenCtr, issued,
                   lastWritten, justCreated, reqNo>>

NextFaulty == Next \/ CorruptMetadata

\* the server on a disk that may damage metadata files
SpecFaulty == Init /\ [][NextFaulty]_vars

-----------------------------------------------------------------------------
(* Properties *)

\* the request passes check_claude_auth
Authorized(hdr) == check_claude_auth(hdr) = "True"

\* the request carries a proxy identity header
HasProxy(hdr) == hdr.xUser # "" \/ hdr.xEmail # "" \/ hdr.remoteUser # ""

\* the prompt a create or follow-up request carries, stripped
PromptOf(body) == Strip(IF body.hasPrompt THEN body.prompt ELSE "")

\* the record a Get returns, without the recent_output it adds
Persisted(body) == [f \in DOMAIN body \ {"recent_output"} |-> body[f]]

\* C1: for a task persisted as running whose session has exited, the next Get
\* returns status completed with finished_at set and persists exactly that
\* record, and the next List lists it as completed and persists completed with
\* finished_at; no session is killed on the way.
C1_Reconciliation ==
  \A t \in DOMAIN tasks :
    (tasks[t]["status"] = "running" /\ ~Alive(SessionName(t))) =>
      /\ \A hdr \in Headers, k \in 0..MaxLines :
           Authorized(hdr) =>
             LET r == handle_claude_get_task(hdr, t, k) IN
               /\ r.code = 200
               /\ r.body["status"] = "completed"
               /\ "finished_at" \in DOMAIN r.body
               /\ r.st.tasks[t] = Persisted(r.body)
               /\ r.st.tmux = tmux
      /\ \A hdr \in Headers :
           Authorized(hdr) =>
             LET r == handle_claude_list_tasks(hdr) IN
               /\ r.code = 200
               /\ \E i \in DOMAIN r.body :
                    r.body[i].task_id = t /\ r.body[i].status = "completed"
               /\ r.st.tasks[t]["status"] = "completed"
               /\ "finished_at" \in DOMAIN r.st.tasks[t]
               /\ r.st.tmux = tmux

\* C1 witness: a record that reconciliation completed (never deleted: no killed_at)
C1_Witness ==
  \E t \in DOMAIN tasks :
    /\ tasks[t]["status"] = "completed"
    /\ "finished_at" \in DOMAIN tasks[t]
    /\ "killed_at" \notin DOMAIN tasks[t]
    /\ ~Alive(SessionName(t))

\* C2 as claimed: no step changes a status of completed, error or killed.
C2_TerminalStatusFrozen ==
  [][\A t \in DOMAIN tasks :
       tasks[t]["status"] \in {"completed", "error", "killed"} =>
         tasks'[t]["status"] = tasks[t]["status"]]_vars

\* C2 as amended: the persisted status of a task changes only along
\* running->completed, running->error, running->killed and, by Delete,
\* completed->killed and error->killed; killed never changes, and completed and
\* error never change to anything but killed.
C2_StatusTransitions ==
  [][\A t \in DOMAIN tasks :
       \/ tasks'[t]["status"] = tasks[t]["status"]
       \/ <<tasks[t]["status"], tasks'[t]["status"]>> \in
            {<<"running", "completed">>, <<"running", "error">>, <<"running", "killed">>,
             <<"completed", "killed">>, <<"error", "killed">>}]_vars

\* C2 witness: a task that was completed by reconciliation and then deleted
C2_Witness ==
  \E t \in DOMAIN tasks :
    tasks[t]["status"] = "killed" /\ "finished_at" \in DOMAIN tasks[t]

\* C3: once the persisted status of a task is killed or completed, it stays
\* killed or completed in every later state, so it is never running again.
C3_NoResurrection ==
  [][\A t \in DOMAIN tasks :
       tasks[t]["status"] \in {"killed", "completed"} =>
         tasks'[t]["status"] \in {"killed", "completed"}]_vars

\* C3 witness: a killed or completed task on which a follow-up can still be
\* requested, and is turned down
C3_Witness ==
  \E t \in DOMAIN tasks :
    /\ tasks[t]["status"] \in {"killed", "completed"}
    /\ reqNo < MaxReqs
    /\ handle_claude_followup(ProxyUser, t, PlainBody, FALSE).code = 404

\* C4: Delete on an id without a record answers 404 and writes nothing; Delete
\* on a known id answers 200 with a record of status killed, persists it and
\* leaves no live session of the task, whatever the record and the session were
\* before (so also right after an earlier Delete, and with the session gone).
C4_Delete ==
  \A hdr \in Headers, t \in Targets :
    Authorized(hdr) =>
      LET r == handle_claude_delete_task(hdr, t) IN
        IF ~IsTask(t)
        THEN r.code = 404 /\ r.st = Store
        ELSE /\ r.code = 200
             /\ r.body["status"] = "killed"
             /\ r.st.tasks[t] = r.body
             /\ SessionName(t) \in DOMAIN r.st.tmux => ~r.st.tmux[SessionName(t)].alive
             /\ \A u \in DOMAIN tasks \ {t} : r.st.tasks[u] = tasks[u]

\* C4 witness: a task already deleted, on which Delete answers killed again
C4_Witness ==
  \E t \in DOMAIN tasks :
    /\ tasks[t]["status"] = "killed"
    /\ ~Alive(SessionName(t))
    /\ reqNo < MaxReqs
    /\ handle_claude_delete_task(ProxyUser, t).code = 200
    /\ handle_claude_delete_task(ProxyUser, t).body["status"] = "killed"

\* C5: a follow-up with a prompt, on an existing task whose session is not
\* alive, answers the error "Session is no longer running" and leaves the whole
\* store as it was: no paste, no file, the record unchanged.
C5_FollowupDeadSession ==
  \A t \in DOMAIN tasks, i \in FollowupInputs :
    (~Alive(SessionName(t)) /\ Authorized(i.hdr) /\ i.body.valid /\ PromptOf(i.body) # "") =>
      LET r == handle_claude_followup(i.hdr, t, i.body, i.midExit) IN
        /\ r.code = 404
        /\ r.body = "Session is no longer running"
        /\ r.st = Store

\* C5 witness: a task with a recorded follow-up whose session has gone
C5_Witness ==
  \E t \in DOMAIN tasks :
    /\ ~Alive(SessionName(t))
    /\ "followups" \in DOMAIN tasks[t]
    /\ reqNo < MaxReqs
    /\ handle_claude_followup(ProxyUser, t, PlainBody, FALSE).code = 404

\* the strings verify is asked about
Candidates == BearerValues \cup issued \cup {""}

\* C6: verify(c) is true exactly when the token file exists and c is the token
\* returned by the latest call that wrote it; every token handed out earlier
\* is rejected.
C6_VerifyCurrentOnly ==
  /\ \A c \in Candidates :
       verify_token(c) = "True" <=> (tokenFile.exists /\ c = lastWritten)
  /\ \A c \in issued : c # lastWritten => verify_token(c) # "True"

\* C6 witness: the token was regenerated after an earlier one had been issued
C6_Witness ==
  /\ tokenFile.exists
  /\ \E c \in issued : c # lastWritten /\ verify_token(c) = "False"
  /\ verify_token(lastWritten) = "True"

\* C7: a request without a proxy identity header gets 401 from both token
\* endpoints, and the token file and everything else stay as they were.
C7_TokenEndpointsProxyOnly ==
  \A hdr \in Headers :
    ~HasProxy(hdr) =>
      /\ handle_claude_get_token(hdr).code = 401
      /\ handle_claude_get_token(hdr).st = Store
      /\ handle_claude_regenerate_token(hdr).code = 401
      /\ handle_claude_regenerate_token(hdr).st = Store

\* C7 witness: a request whose bearer token verify accepts is turned down
C7_Witness ==
  \E hdr \in Headers :
    /\ ~HasProxy(hdr)
    /\ hdr.scheme = "Bearer"
    /\ verify_token(hdr.value) = "True"
    /\ reqNo < MaxReqs
    /\ handle_claude_get_token(hdr).code = 401
    /\ handle_claude_regenerate_token(hdr).code = 401

\* the request carries a proxy identity header or the stored token as bearer
Credentialed(hdr) ==
  \/ HasProxy(hdr)
  \/ hdr.scheme = "Bearer" /\ tokenFile.exists /\ hdr.value = tokenFile.content

\* what a task endpoint owes a request: served with credentials, and
\* otherwise 401 with nothing written
AuthContract(hdr, r) ==
  IF Credentialed(hdr) THEN r.code # 401 ELSE r.code = 401 /\ r.st = Store

\* C8 as claimed: every task endpoint serves a request if and only if it
\* carries a proxy identity header or the stored token as bearer; every other
\* request gets 401 and changes nothing.
C8_TaskEndpointsAuth ==
  /\ \A i \in CreateInputs :
       AuthContract(i.hdr, handle_claude_create_task(i.hdr, i.body, i.suffix, i.startOk))
  /\ \A hdr \in Headers : AuthContract(hdr, handle_claude_list_tasks(hdr))
  /\ \A hdr \in Headers, t \in Targets :
       /\ AuthContract(hdr, handle_claude_get_task(hdr, t, MaxLines))
       /\ AuthContract(hdr, handle_claude_get_output(hdr, t, NoTail, MaxLines))
       /\ AuthContract(hdr, handle_claude_delete_task(hdr, t))
  /\ \A i \in FollowupInputs, t \in Targets :
       AuthContract(i.hdr, handle_claude_followup(i.hdr, t, i.body, i.midExit))

\* C9 as claimed: the List right after a Create that returned a record has an
\* entry for the new task with status running.
C9_ListedRunning ==
  justCreated # UnknownId =>
    \A hdr \in Headers :
      Authorized(hdr) =>
        \E i \in DOMAIN handle_claude_list_tasks(hdr).body :
          LET e == handle_claude_list_tasks(hdr).body[i]
          IN  e.task_id = justCreated /\ e.status = "running"

\* C9 as amended: the List right after a Create that returned a record has an
\* entry for the new task; its status is error when the backend start failed,
\* completed when the session has exited since, and running otherwise.
C9_ListedAfterCreate ==
  justCreated # UnknownId =>
    \A hdr \in Headers :
      Authorized(hdr) =>
        /\ handle_claude_list_tasks(hdr).code = 200
        /\ \E i \in DOMAIN handle_claude_list_tasks(hdr).body :
             LET e == handle_claude_list_tasks(hdr).body[i]
             IN  /\ e.task_id = justCreated
                 /\ e.status = IF "error" \in DOMAIN tasks[justCreated] THEN "error"
                               ELSE IF Alive(SessionName(justCreated)) THEN "running"
                               ELSE "completed"

\* C9 witness: a task was just created and its session has exited before List
C9_Witness ==
  /\ justCreated # UnknownId
  /\ reqNo < MaxReqs
  /\ tasks[justCreated]["status"] = "running"
  /\ ~Alive(SessionName(justCreated))

\* C10: a create request that passes authorization with a JSON body whose
\* prompt is missing, empty or only whitespace answers 400 and writes nothing:
\* no directory, no metadata, no session, no prompt delivery.
C10_EmptyPromptRejected ==
  \A i \in CreateInputs :
    (Authorized(i.hdr) /\ i.body.valid /\
       (~i.body.hasPrompt \/ i.body.prompt \in {"", " "})) =>
      LET r == handle_claude_create_task(i.hdr, i.body, i.suffix, i.startOk) IN
        /\ r.code = 400
        /\ r.body = "prompt is required"
        /\ r.st = Store

\* C10 witness: with a task on disk, a whitespace prompt is turned down
C10_Witness ==
  /\ Cardinality(DOMAIN tasks) = 1
  /\ reqNo < MaxReqs
  /\ handle_claude_create_task(ProxyUser, Body(TRUE, TRUE, " ", FALSE, ""), 1, TRUE).code = 400

\* C11: when tmux fails to start the session, Create still answers with the
\* record: it has status error and the failure message in its error field, it
\* is what was persisted, no session was added and no prompt delivery is
\* scheduled.
C11_StartFailureRecorded ==
  \A i \in CreateInputs :
    (Authorized(i.hdr) /\ i.body.valid /\ PromptOf(i.body) # "" /\ ~i.startOk
       /\ ~IsTask(<<now, i.suffix>>)) =>
      LET r  == handle_claude_create_task(i.hdr, i.body, i.suffix, i.startOk)
          id == <<now, i.suffix>>
      IN  /\ r.code = 201
          /\ r.body["task_id"] = id
          /\ r.body["status"] = "error"
          /\ r.body["error"] = "tmux failed"
          /\ r.st.tasks[id] = r.body
          /\ r.st.tmux = tmux
          /\ SessionName(id) \notin DOMAIN r.st.tmux
          /\ r.st.pending = pending

\* C11 witness: a record of a failed start, with no session and no delivery due
C11_Witness ==
  \E t \in DOMAIN tasks :
    /\ tasks[t]["status"] = "error"
    /\ tasks[t]["error"] = "tmux failed"
    /\ SessionName(t) \notin DOMAIN tmux
    /\ t \notin pending

\* C12 as claimed: each of created_at, finished_at and killed_at, once present
\* in a persisted record, is there with the same value after every step.
C12_TimestampsSetOnce ==
  [][\A t \in DOMAIN tasks :
       \A f \in {"created_at", "finished_at", "killed_at"} \cap DOMAIN tasks[t] :
         f \in DOMAIN tasks'[t] /\ tasks'[t][f] = tasks[t][f]]_vars

\* the follow-ups a record holds
FollowupsOf(meta) == DictGet(meta, "followups", <<>>)

\* C13: the persisted followups of a task only grow at the end: after every
\* step, whichever request or event took it, the earlier value is a prefix of
\* the later one, so a recorded follow-up is never lost.
C13_FollowupsAppendOnly ==
  [][\A t \in DOMAIN tasks :
       /\ Len(FollowupsOf(tasks[t])) <= Len(FollowupsOf(tasks'[t]))
       /\ SubSeq(FollowupsOf(tasks'[t]), 1, Len(FollowupsOf(tasks[t]))) = FollowupsOf(tasks[t])]_vars

\* C13 witness: a second follow-up was recorded behind the first
C13_Witness ==
  \E t \in DOMAIN tasks :
    /\ Len(FollowupsOf(tasks[t])) >= 2
    /\ FollowupsOf(tasks[t])[1].prompt # FollowupsOf(tasks[t])[2].prompt

\* C14: after every step, every task directory holds a record whose task_id is
\* the directory name and whose tmux_session is "claude-" + task_id; and the
\* step leaves task_id, session_id, prompt, workdir and tmux_session of every
\* record that existed before it as they were.
C14_IdentityFixed ==
  [][/\ \A t \in DOMAIN tasks' :
          tasks'[t]["task_id"] = t /\ tasks'[t]["tmux_session"] = SessionName(t)
     /\ \A t \in DOMAIN tasks :
          /\ t \in DOMAIN tasks'
          /\ \A f \in {"task_id", "session_id", "prompt", "workdir", "tmux_session"} :
               tasks'[t][f] = tasks[t][f]]_vars

\* C14 witness: a record that a follow-up and then a Delete or a reconciliation
\* have rewritten
C14_Witness ==
  \E t \in DOMAIN tasks :
    /\ "followups" \in DOMAIN tasks[t]
    /\ tasks[t]["status"] \in {"killed", "completed"}
    /\ tasks[t]["task_id"] = t
    /\ tasks[t]["tmux_session"] = SessionName(t)

\* C15: while the token file exists, get_or_create answers with the token the
\* latest writing call returned and leaves the file and everything else as it
\* was, so any number of such calls in a row return that same token.
C15_GetOrCreateIdempotent ==
  tokenFile.exists =>
    \A hdr \in Headers :
      HasProxy(hdr) =>
        LET r == handle_claude_get_token(hdr) IN
          /\ r.code = 200
          /\ r.body = lastWritten
          /\ r.body = tokenFile.content
          /\ r.st = Store

\* C15 witness: the token was regenerated, and get_or_create can be asked again
C15_Witness ==
  /\ tokenFile.exists
  /\ tokenCtr = 2
  /\ reqNo < MaxReqs
  /\ handle_claude_get_token(ProxyUser).body = lastWritten
  /\ handle_claude_get_token(ProxyUser).st.tokenFile = tokenFile

\* C16 as claimed: List returns the tasks newest first, so right after a Create
\* the task it made stands before every task made earlier, in the same clock
\* second or not.
C16_ReverseCreationOrder ==
  justCreated # UnknownId =>
    \A hdr \in Headers :
      Authorized(hdr) =>
        handle_claude_list_tasks(hdr).body[1].task_id = justCreated

\* C17 as claimed: on a task whose task.json exists but cannot be decoded,
\* Get, GetOutput and Delete each answer what they answer for an unknown id:
\* 404 with the JSON error body.
C17_DamagedIsNotFound ==
  \A t \in DOMAIN damaged, hdr \in Headers :
    Authorized(hdr) =>
      /\ handle_claude_get_task(hdr, t, MaxLines).code = 404
      /\ handle_claude_get_task(hdr, t, MaxLines).body =
           handle_claude_get_task(hdr, UnknownId, MaxLines).body
      /\ handle_claude_get_output(hdr, t, NoTail, MaxLines).code = 404
      /\ handle_claude_get_output(hdr, t, NoTail, MaxLines).body =
           handle_claude_get_output(hdr, UnknownId, NoTail, MaxLines).body
      /\ handle_claude_delete_task(hdr, t).code = 404
      /\ handle_claude_delete_task(hdr, t).body = handle_claude_delete_task(hdr, UnknownId).body

\* C18 as claimed: List always answers, and its result holds exactly the tasks
\* whose task.json can be decoded.
C18_ListSkipsDamaged ==
  \A hdr \in Headers :
    Authorized(hdr) =>
      LET r == handle_claude_list_tasks(hdr) IN
        /\ r.code = 200
        /\ {r.body[i].task_id : i \in DOMAIN r.body} = DOMAIN tasks \ DOMAIN damaged

\* the lines of a text given as its '\n'-separated pieces: a text that ends
\* with '\n' has an empty last piece, which is no line
LinesOf(pieces) ==
  IF pieces # <<>> /\ pieces[Len(pieces)] = "" THEN SubSeq(pieces, 1, Len(pieces) - 1)
  ELSE pieces

\* the last n elements of a sequence, all of it when it has fewer
LastLines(lines, n) ==
  IF n >= Len(lines) THEN lines ELSE SubSeq(lines, Len(lines) - n + 1, Len(lines))

C20_TerminalMeansNoSession ==
  \A t \in DOMAIN tasks :
    tasks[t]["status"] \in {"completed", "killed", "error"} => ~Alive(SessionName(t))

\* C20 witness: a session that ran, took its prompt and was then killed
C20_Witness ==
  \E t \in DOMAIN tasks :
    /\ tasks[t]["status"] = "killed"
    /\ SessionName(t) \in DOMAIN tmux
    /\ tmux[SessionName(t)].input # <<>>
    /\ ~Alive(SessionName(t))

\* what the send_prompt thread of a task has pasted into its session
PromptPastes(t) ==
  IF SessionName(t) \in DOMAIN tmux
  THEN SelectSeq(tmux[SessionName(t)].input, LAMBDA p : p.buf = "prompt")
  ELSE <<>>

\* C21: a task whose session was started and whose prompt is still to be
\* delivered gets it pasted unless the session dies first; the paste carries
\* the whole prompt of the task, and no session ever holds more than one.
C21_PromptDelivered ==
  /\ [](\A t \in DOMAIN tasks :
          /\ Len(PromptPastes(t)) <= 1
          /\ \A i \in DOMAIN PromptPastes(t) : PromptPastes(t)[i].text = tasks[t]["prompt"])
  /\ \A t \in TaskIds :
       (t \in pending) ~> (Len(PromptPastes(t)) = 1 \/ ~Alive(SessionName(t)))

\* C21 witness: the prompt has been delivered to a live session
C21_Witness ==
  \E t \in DOMAIN tasks :
    /\ Alive(SessionName(t))
    /\ t \notin pending
    /\ PromptPastes(t) = <<[buf |-> "prompt", text |-> tasks[t]["prompt"]]>>

\* C22: a step of the prompt delivery, whether its paste lands or fails, leaves
\* every task.json and every file as the requests left them; and the Create
\* that schedules a delivery has returned the running record with nothing
\* pasted yet.
C22_DeliveryWritesNoMetadata ==
  [][/\ (pending' # pending /\ reqNo' = reqNo) => (tasks' = tasks /\ files' = files)
     /\ \A t \in pending' \ pending :
          /\ justCreated' = t
          /\ tasks'[t]["status"] = "running"
          /\ tmux'[SessionName(t)].input = <<>>]_vars

\* C22 witness: the delivery ran after Delete had killed the session, pasted
\* nothing, and the record is still the one Delete wrote
C22_Witness ==
  \E t \in DOMAIN tasks :
    /\ tasks[t]["status"] = "killed"
    /\ "finished_at" \notin DOMAIN tasks[t]
    /\ t \notin pending
    /\ SessionName(t) \in DOMAIN tmux
    /\ tmux[SessionName(t)].input = <<>>

\* C23: a follow-up that succeeds on a task with a live session persists the
\* record it returns: followups is the earlier list with one entry for the given
\* prompt added at the end, status is running, and every other field of the
\* record, and every other record, is as before.
C23_FollowupEffect ==
  \A t \in DOMAIN tasks, i \in FollowupInputs :
    LET r == handle_claude_followup(i.hdr, t, i.body, i.midExit) IN
      (Alive(SessionName(t)) /\ r.code = 200) =>
        /\ r.st.tasks[t] = r.body
        /\ FollowupsOf(r.body) =
             Append(FollowupsOf(tasks[t]), [prompt |-> PromptOf(i.body), sent_at |-> now])
        /\ r.body["status"] = "running"
        /\ DOMAIN r.body = DOMAIN tasks[t] \cup {"followups"}
        /\ \A f \in DOMAIN tasks[t] \ {"status", "followups"} : r.body[f] = tasks[t][f]
        /\ \A u \in DOMAIN tasks \ {t} : r.st.tasks[u] = tasks[u]

\* C23 witness: a task with a follow-up on record and a live session, on which
\* a further follow-up succeeds
C23_Witness ==
  \E t \in DOMAIN tasks :
    /\ Len(FollowupsOf(tasks[t])) = 1
    /\ Alive(SessionName(t))
    /\ reqNo < MaxReqs
    /\ handle_claude_followup(ProxyUser, t, PlainBody, FALSE).code = 200

\* C24: a Create whose generated task_id names an existing task directory
\* fails with an error and leaves the whole store, so that task's record,
\* prompt file and session, as it was; and the persisted tasks always have
\* pairwise distinct task_id and pairwise distinct tmux_session.
C24_NoIdReuse ==
  /\ \A i \in CreateInputs :
       (Authorized(i.hdr) /\ i.body.valid /\ PromptOf(i.body) # "" /\ IsTask(<<now, i.suffix>>)) =>
         LET r == handle_claude_create_task(i.hdr, i.body, i.suffix, i.startOk) IN
           r.code = 500 /\ r.st = Store
  /\ \A t, u \in DOMAIN tasks :
       t # u => /\ tasks[t]["task_id"] # tasks[u]["task_id"]
                /\ tasks[t]["tmux_session"] # tasks[u]["tmux_session"]

\* C24 witness: two tasks exist, and a Create in this second that draws the
\* suffix of one of them is turned down
C24_Witness ==
  \E t \in DOMAIN tasks :
    /\ t[1] = now
    /\ Cardinality(DOMAIN tasks) = 2
    /\ reqNo < MaxReqs
    /\ handle_claude_create_task(ProxyUser, PlainBody, t[2], TRUE).code = 500

\* C25: once Delete has written status killed for a task, every request that
\* follows leaves that record killed with killed_at set: Get and List return
\* it as killed and write nothing to it, and a follow-up is turned down and
\* writes nothing to it.
C25_DeleteNotOverwritten ==
  \A t \in DOMAIN tasks :
    tasks[t]["status"] = "killed" =>
      /\ "killed_at" \in DOMAIN tasks[t]
      /\ \A hdr \in Headers, k \in 0..MaxLines :
           Authorized(hdr) =>
             LET g == handle_claude_get_task(hdr, t, k)
                 l == handle_claude_list_tasks(hdr)
             IN  /\ g.code = 200 /\ Persisted(g.body) = tasks[t] /\ g.st.tasks[t] = tasks[t]
                 /\ \E j \in DOMAIN l.body : l.body[j].task_id = t /\ l.body[j].status = "killed"
                 /\ l.st.tasks[t] = tasks[t]
      /\ \A i \in FollowupInputs :
           LET f == handle_claude_followup(i.hdr, t, i.body, i.midExit)
           IN  f.code # 200 /\ f.st.tasks[t] = tasks[t]

\* C25 witness: a deleted task with a request still to come, on which Get
\* answers killed
C25_Witness ==
  \E t \in DOMAIN tasks :
    /\ tasks[t]["status"] = "killed"
    /\ reqNo < MaxReqs
    /\ handle_claude_get_task(ProxyUser, t, 0).code = 200
    /\ handle_claude_get_task(ProxyUser, t, 0).body["status"] = "killed"

\* what follow-ups have pasted into the session of a task
FollowupPastes(t) ==
  IF SessionName(t) \in DOMAIN tmux
  THEN SelectSeq(tmux[SessionName(t)].input, LAMBDA p : p.buf = "followup")
  ELSE <<>>

\* C26 as claimed: a session receives the initial prompt before any follow-up:
\* while the initial prompt of a task is still to be pasted, no follow-up has
\* been pasted into its session, and in what a session received no follow-up
\* stands before the initial prompt.
C26_PromptBeforeFollowups ==
  \A t \in DOMAIN tasks :
    /\ t \in pending => FollowupPastes(t) = <<>>
    /\ SessionName(t) \in DOMAIN tmux =>
         \A i, j \in DOMAIN tmux[SessionName(t)].input :
           (tmux[SessionName(t)].input[i].buf = "followup" /\
            tmux[SessionName(t)].input[j].buf = "prompt") => j < i

\* C27: a follow-up that succeeds has added exactly one paste to the session of
\* its task, carrying the prompt of this very request, has left what the
\* session received before and every other session as they were, and
\* followup.txt holds that prompt.
C27_FollowupPastesOwnText ==
  \A t \in DOMAIN tasks, i \in FollowupInputs :
    LET r == handle_claude_followup(i.hdr, t, i.body, i.midExit) IN
      r.code = 200 =>
        /\ r.st.tmux[SessionName(t)].input =
             Append(tmux[SessionName(t)].input,
                    [buf |-> "followup", text |-> PromptOf(i.body)])
        /\ r.st.tmux[SessionName(t)].alive
        /\ \A s \in DOMAIN tmux \ {SessionName(t)} : r.st.tmux[s] = tmux[s]
        /\ r.st.files[t]["followup.txt"] = PromptOf(i.body)

\* C27 witness: a session that received two follow-ups with different texts,
\* each once and in the order sent
C27_Witness ==
  \E t \in DOMAIN tasks :
    /\ Len(FollowupPastes(t)) = 2
    /\ FollowupPastes(t)[1].text # FollowupPastes(t)[2].text
    /\ FollowupPastes(t)[1].text = FollowupsOf(tasks[t])[1].prompt
    /\ FollowupPastes(t)[2].text = FollowupsOf(tasks[t])[2].prompt

\* the record of a task after a read that reconciles it: completed and
\* finished_at when it is recorded as running and its session is gone, and
\* otherwise the record as it is
AfterRead(t) ==
  IF tasks[t]["status"] = "running" /\ ~Alive(SessionName(t))
  THEN [f \in DOMAIN tasks[t] \cup {"finished_at"} |->
          IF f = "status" THEN "completed"
          ELSE IF f = "finished_at" THEN now ELSE tasks[t][f]]
  ELSE tasks[t]

\* C28: Get leaves the store as it was except for the record of its task, and
\* List except for the records, and each record they leave is the one a
\* reconciling read leaves; a request they refuse writes nothing; GetOutput
\* leaves the whole store as it was, whatever the task and its session.
C28_ReadsOnlyReconcile ==
  /\ \A hdr \in Headers, t \in Targets, k \in 0..MaxLines :
       LET g == handle_claude_get_task(hdr, t, k) IN
         IF g.code = 200
         THEN g.st = [Store EXCEPT !.tasks = [tasks EXCEPT ![t] = AfterRead(t)]]
         ELSE g.st = Store
  /\ \A hdr \in Headers :
       LET l == handle_claude_list_tasks(hdr) IN
         IF l.code = 200
         THEN l.st = [Store EXCEPT !.tasks = [u \in DOMAIN tasks |-> AfterRead(u)]]
         ELSE l.st = Store
  /\ \A hdr \in Headers, t \in Targets, tail \in Tails, k \in 0..MaxLines :
       handle_claude_get_output(hdr, t, tail, k).st = Store

\* C28 witness: a task recorded as running whose session is gone, on which
\* GetOutput answers and a Get would reconcile
C28_Witness ==
  \E t \in DOMAIN tasks :
    /\ tasks[t]["status"] = "running"
    /\ ~Alive(SessionName(t))
    /\ reqNo < MaxReqs
    /\ handle_claude_get_output(ProxyUser, t, NoTail, MaxLines).code = 200
    /\ handle_claude_get_task(ProxyUser, t, MaxLines).st.tasks[t] # tasks[t]

\* C29: the token get_or_create returns is what the token file holds when the
\* call returns; with a token file in place that is the token already stored,
\* which verify accepts, so a second caller gets the token the first one got;
\* and verify accepts the token of the latest writing call as long as no
\* regenerate has replaced it.
C29_ReturnedTokenIsStored ==
  /\ \A hdr \in Headers :
       HasProxy(hdr) =>
         LET r == handle_claude_get_token(hdr) IN
           /\ r.code = 200
           /\ r.st.tokenFile = [exists |-> TRUE, content |-> r.body]
           /\ tokenFile.exists =>
                /\ r.st.tokenFile = tokenFile
                /\ r.body \in issued
                /\ verify_token(r.body) = "True"
           /\ ~tokenFile.exists => r.body \notin issued
  /\ tokenFile.exists => verify_token(lastWritten) = "True"

\* C29 witness: the first get_or_create has made the token, and the next one
\* answers with the same
C29_Witness ==
  /\ tokenFile.exists
  /\ tokenCtr = 1
  /\ issued = {tokenFile.content}
  /\ reqNo < MaxReqs
  /\ handle_claude_get_token(ProxyUser).body = tokenFile.content

\* C30 as claimed: whatever the token file holds, also when it exists and is
\* empty, verify returns true only for a string that get_or_create or
\* regenerate has returned to a caller, and never for the empty string.
C30_VerifyOnlyIssued ==
  \A c \in Candidates :
    verify_token(c) = "True" => (c \in issued /\ c # "")

====
